---- MODULE Spec2Model ----
(***************************************************************************)
(* State-machine model of the orchestration core of the news-capture       *)
(* extension: class BackgroundProcessor (src/unnamed/part_002).            *)
(*                                                                         *)
(* One variable per field of the object, plus the asynchronous work that   *)
(* is in flight between two awaits: the executions of the automation-queue *)
(* loop, the pending setTimeout callbacks, the tabs a batch has opened and *)
(* the sequential auto-print calls.  Each action is one handler, or the    *)
(* part of an async handler between two awaits.  The engine (the local     *)
(* capture service) and the operator are the environment: their answers    *)
(* and commands are drawn from small sets.                                 *)
(*                                                                         *)
(* Indices are 0-based as in the source; the i-th link is links[i + 1].    *)
(***************************************************************************)
EXTENDS Integers, Sequences, FiniteSets, TLC

\* ------------------------------------------------------------------ bounds
MaxLinks == 3          \* longest link list the operator loads
MaxBatchSize == 2      \* largest batchSize the operator chooses
MaxRuns == 1           \* start commands issued in one behaviour
MaxGenerations == 2    \* lists started one after the other, where a list is replaced
MaxPauses == 1         \* pause commands issued in one behaviour
MaxLoops == 2          \* concurrent executions of processAutomationQueue
MaxTimers == 2         \* pending setTimeout callbacks of one kind
MaxTabs == 4           \* tabs opened by batches in one behaviour
MaxTime == 8           \* stall-check periods the clock runs for
MaxLog == 2            \* length of the history counters and logs
MaxAttempts == 4       \* recovery attempts the operator's commands may reach
MaxReports == 2        \* block reports the page agent delivers
MaxOpens == 2          \* openLink calls awaiting the browser at one time
MaxInput == 3          \* lines the operator pastes into the links textarea

\* ------------------------------------------------- constants of the source
maxQueueRecoveryAttempts == 3
stuckQueueThreshold == 60000
stallCheckInterval == 15000
maxPolls == 90
maxRetries == 5
earlyPollLimit == 10
healthCheckErrors == 2
healthScoreFloor == 50
criticalDuration == 45

NULL == "null"
NoLink == 0            \* links[i] outside the list, and no link in hand
RecoveryReasons == {"health", "stall", "polling", "sequential", "manual"}
printMethod == "python"

URLs == 1..MaxLinks

\* The link lists the operator loads: the first n URLs, and one list that
\* repeats a URL (validateLinks keeps repeated lines).
LinkList(n) == [i \in 1..n |-> i]
LinkLists == {LinkList(n) : n \in 1..MaxLinks} \cup {<<1, 1>>}

VARIABLES
    \* ---- fields of BackgroundProcessor
    links, currentIndex, isProcessing, isBatchMode, batchSize, shouldMoveNext,
    sequentialOptions, currentTab, tabListeners,
    isPaused, pauseReason, blockedLinks, unprocessedLinks,
    automationQueue, isProcessingQueue, queueRecoveryAttempts,
    lastQueueProgress, autoRecoveryEnabled, serviceHealthStatus,
    processedLinks, failedLinks, linkProcessingStatus,
    currentlyProcessingLink, automationTracker,
    \* ---- chrome.storage.local
    storage,
    \* ---- asynchronous work in flight
    now, loops, queueTimers, restartTimers, batch, batchTimers, tabs,
    seqRuns, autoPrintTimers, moveNextTimers, reopenTimers,
    linkCompletedTimers, opens,
    \* ---- the popup page: the links textarea and UniversalNewsProcessor.links
    linksInput, popupLinks, popupIndex, loadedSinceStart,
    \* ---- history of the calls made to the outside
    runs, pauses, submitLog, recoveryLog, blockReportLog, healthLog

procVars == <<links, currentIndex, isProcessing, isBatchMode, batchSize,
              shouldMoveNext, sequentialOptions, currentTab, tabListeners>>
pauseVars == <<isPaused, pauseReason, blockedLinks, unprocessedLinks>>
queueVars == <<automationQueue, isProcessingQueue, queueRecoveryAttempts,
               lastQueueProgress>>
healthVars == <<autoRecoveryEnabled, serviceHealthStatus>>
trackVars == <<processedLinks, failedLinks, linkProcessingStatus,
               currentlyProcessingLink, automationTracker>>
batchVars == <<batch, batchTimers, tabs>>
seqVars == <<seqRuns, autoPrintTimers, moveNextTimers, reopenTimers,
             linkCompletedTimers, opens>>
popupVars == <<linksInput, popupLinks, popupIndex, loadedSinceStart>>
histVars == <<runs, pauses, submitLog, recoveryLog, blockReportLog, healthLog>>

vars == <<procVars, pauseVars, queueVars, healthVars, trackVars, storage,
          now, loops, queueTimers, restartTimers, batchVars, seqVars,
          popupVars, histVars>>

\* ----------------------------------------------------------------- helpers
Min(a, b) == IF a < b THEN a ELSE b
Max(a, b) == IF a > b THEN a ELSE b
Bump(n) == Min(n + 1, MaxLog)

\* links[index] of the source: undefined outside the list.
LinkAt(ls, index) == IF index >= 0 /\ index < Len(ls) THEN ls[index + 1] ELSE NoLink

\* getLinkUrl: the link's url (links are objects holding a url).
getLinkUrl(link) == link

NoStatus == [u \in URLs |-> "none"]

\* A loop slot that runs no execution of processAutomationQueue.
NoItem == [tab |-> 0, url |-> 0, index |-> 0]
Off == [pc |-> "off", item |-> NoItem, completedTime |-> 0, pollCount |-> 0,
        consecutiveErrors |-> 0]
LoopIds == 1..MaxLoops

IdleBatch == [pc |-> "idle", size |-> 0, i |-> 0, opened |-> <<>>]

\* sequentialOptions before any startProcessing: no option is set.
NoOptions == [autoAdvance |-> FALSE, useAutoPrint |-> FALSE]

\* The record persisted under the key pausedState.
NoPausedState == [saved |-> FALSE, isPaused |-> FALSE, pauseReason |-> NULL,
                  blockedLinks |-> {}, unprocessedLinks |-> <<>>,
                  currentIndex |-> 0]

\* State of the object after its constructor and loadPausedState have run on
\* the stored record st.
Constructed(st) ==
    /\ links = <<>>
    /\ currentIndex = 0
    /\ isProcessing = FALSE
    /\ isBatchMode = FALSE
    /\ batchSize = 0
    /\ shouldMoveNext = FALSE
    /\ sequentialOptions = NoOptions
    /\ currentTab = FALSE
    /\ tabListeners = TRUE
    /\ isPaused = (IF st.saved THEN st.isPaused ELSE FALSE)
    /\ pauseReason = (IF st.saved THEN st.pauseReason ELSE NULL)
    /\ blockedLinks = (IF st.saved THEN st.blockedLinks ELSE {})
    /\ unprocessedLinks = (IF st.saved THEN st.unprocessedLinks ELSE <<>>)
    /\ automationQueue = <<>>
    /\ isProcessingQueue = FALSE
    /\ queueRecoveryAttempts = 0
    /\ autoRecoveryEnabled = TRUE
    /\ serviceHealthStatus = NULL
    /\ processedLinks = {}
    /\ failedLinks = {}
    /\ linkProcessingStatus = NoStatus
    /\ currentlyProcessingLink = NoLink
    /\ automationTracker = {}
    /\ loops = [l \in LoopIds |-> Off]
    /\ queueTimers = 0
    /\ restartTimers = 0
    /\ batch = IdleBatch
    /\ batchTimers = 0
    /\ tabs = <<>>
    /\ seqRuns = {}
    /\ autoPrintTimers = 0
    /\ moveNextTimers = 0
    /\ reopenTimers = 0
    /\ linkCompletedTimers = 0
    /\ opens = {}

Init ==
    /\ Constructed(NoPausedState)
    /\ storage = NoPausedState
    /\ now = 0
    /\ lastQueueProgress = 0
    /\ linksInput = <<>>
    /\ popupLinks = <<>>
    /\ popupIndex = 0
    /\ loadedSinceStart = FALSE
    /\ runs = 0
    /\ pauses = 0
    /\ submitLog = [u \in URLs |-> 0]
    /\ recoveryLog = [r \in RecoveryReasons |-> 0]
    /\ blockReportLog = <<>>
    /\ healthLog = <<>>

\* --------------------------------------------------------- validateState
\* Removes from failedLinks what is also in processedLinks, then adds the
\* URLs whose status entry says completed or failed and that are in neither.
validatedProcessed(done, st) == done \cup {u \in URLs : st[u] = "completed"}
validatedFailed(done, bad, st) ==
    (bad \ done) \cup {u \in URLs : st[u] = "failed" /\ u \notin done}

\* ------------------------------------------------ the automation queue
FreeLoops(lp) == {l \in LoopIds : lp[l].pc = "off"}
FirstFree(lp) == CHOOSE l \in FreeLoops(lp) : \A k \in FreeLoops(lp) : l <= k

\* The part of the state a synchronous stretch of the queue loop works on.
QState == [q |-> automationQueue, ipq |-> isProcessingQueue,
           st |-> linkProcessingStatus, done |-> processedLinks,
           bad |-> failedLinks, cur |-> currentlyProcessingLink,
           trk |-> automationTracker, lp |-> loops, tb |-> tabs]

QApply(s) ==
    /\ automationQueue' = s.q
    /\ isProcessingQueue' = s.ipq
    /\ linkProcessingStatus' = s.st
    /\ processedLinks' = s.done
    /\ failedLinks' = s.bad
    /\ currentlyProcessingLink' = s.cur
    /\ automationTracker' = s.trk
    /\ loops' = s.lp
    /\ tabs' = s.tb

\* trackAutomationForLink's key `${linkIndex}-${this.links[linkIndex]}`: the
\* link is an object, so the text after the dash does not depend on its URL.
linkKey(index, ls) ==
    <<index, IF LinkAt(ls, index) = NoLink THEN "undefined" ELSE "[object Object]">>

\* The failure branches of processAutomationQueue: the status entry and the
\* failed set are written, and the item's tab is closed.
MarkFailed(s, item) ==
    [s EXCEPT !.st[item.url] = "failed", !.bad = @ \cup {item.url},
              !.cur = NoLink, !.tb[item.tab].st = "closed"]

\* The end of the loop: `this.isProcessingQueue = false`.
LoopExit(s, l) == [s EXCEPT !.lp[l] = Off, !.ipq = FALSE]

\* After an item that did not throw: wait queueDelay when items remain.
AfterItem(s, l) ==
    IF s.q # <<>> THEN [s EXCEPT !.lp[l] = [Off EXCEPT !.pc = "delay"]]
    ELSE LoopExit(s, l)

\* One pass of the while loop up to its first await: shift the item, mark it
\* processing, and ask the duplicate guard.
TakeNext(s, l, ls) ==
    LET item == Head(s.q)
        s1 == [s EXCEPT !.q = Tail(@), !.cur = item.url,
                        !.st[item.url] = "processing"]
        key == linkKey(item.index, ls)
    IN  IF key \in s1.trk
        THEN AfterItem(MarkFailed(s1, item), l)
        ELSE [s1 EXCEPT !.trk = @ \cup {key},
                        !.lp[l] = [Off EXCEPT !.pc = "prep", !.item = item]]

NextIteration(s, l, ls) ==
    IF s.q = <<>> THEN LoopExit(s, l) ELSE TakeNext(s, l, ls)

\* processAutomationQueue(): returns at once when a loop is marked running or
\* the queue is empty; otherwise a new execution of the loop begins.
QueueStarts(s) == ~s.ipq /\ s.q # <<>>
CanEnter(s) == QueueStarts(s) => FreeLoops(s.lp) # {}
processAutomationQueue(s, ls) ==
    IF QueueStarts(s)
    THEN TakeNext([s EXCEPT !.ipq = TRUE], FirstFree(s.lp), ls)
    ELSE s

\* triggerServiceRecovery: a force_recovery request; when it is answered ok
\* and a loop is marked running, processAutomationQueue is called 2 s later.
RecoveryTimer(ok, ipq) == IF ok /\ ipq THEN 1 ELSE 0

\* savePausedState: the record written to chrome.storage.local.
PausedSnapshot(paused, reason, blocked, index) ==
    [saved |-> TRUE, isPaused |-> paused, pauseReason |-> reason,
     blockedLinks |-> blocked, unprocessedLinks |-> unprocessedLinks,
     currentIndex |-> index]

\* ---------------------------------------------------------- batch mode
BatchSizes == 1..MaxBatchSize

\* The start of processBatch, up to the first await of its opening loop.
BatchBegin(n, index, size) ==
    [pc |-> "opening", size |-> Min(size, n - index), i |-> 0, opened |-> <<>>]

\* startBatchProcessing(links, 0, batchSize, ..) up to the first await of
\* processBatch.
startBatchProcessing(ls, bs) ==
    /\ ~isProcessing
    /\ batch.pc = "idle"
    /\ runs' = runs + 1
    /\ links' = ls
    /\ currentIndex' = 0
    /\ isProcessing' = TRUE
    /\ isBatchMode' = TRUE
    /\ batchSize' = bs
    /\ shouldMoveNext' = FALSE
    /\ processedLinks' = validatedProcessed(processedLinks, linkProcessingStatus)
    /\ failedLinks' = validatedFailed(processedLinks, failedLinks, linkProcessingStatus)
    /\ batch' = BatchBegin(Len(ls), 0, bs)
    /\ UNCHANGED popupVars
    /\ UNCHANGED <<sequentialOptions, currentTab, tabListeners, pauseVars,
                   queueVars, healthVars, linkProcessingStatus,
                   currentlyProcessingLink, automationTracker, storage, now,
                   loops, queueTimers, restartTimers, batchTimers, tabs, seqVars, pauses, submitLog,
                   recoveryLog, blockReportLog, healthLog>>

\* Message startBatchProcessing, sent once.
StartBatchProcessing(ls, bs) ==
    /\ runs < MaxRuns
    /\ startBatchProcessing(ls, bs)

\* Message startBatchProcessing for another list, sent after an earlier start.
StartNextBatch(ls, bs) ==
    /\ runs >= 1
    /\ runs < MaxGenerations
    /\ startBatchProcessing(ls, bs)

\* The setTimeout(processBatch, batchDelay) callback.
ProcessBatchTimer ==
    /\ batchTimers > 0
    /\ batch.pc = "idle"
    /\ batchTimers' = batchTimers - 1
    /\ IF ~isProcessing \/ ~isBatchMode
       THEN UNCHANGED <<links, currentIndex, isProcessing, isBatchMode,
                        shouldMoveNext, tabListeners, batch>>
       ELSE IF Len(links) - currentIndex <= 0
       THEN \* stopProcessing()
            /\ isProcessing' = FALSE
            /\ isBatchMode' = FALSE
            /\ shouldMoveNext' = FALSE
            /\ links' = <<>>
            /\ currentIndex' = 0
            /\ tabListeners' = FALSE
            /\ UNCHANGED batch
       ELSE /\ batch' = BatchBegin(Len(links), currentIndex, batchSize)
            /\ UNCHANGED <<links, currentIndex, isProcessing, isBatchMode,
                           shouldMoveNext, tabListeners>>
    /\ UNCHANGED popupVars
    /\ UNCHANGED <<batchSize, sequentialOptions, currentTab, pauseVars,
                   queueVars, healthVars, trackVars, storage, now, loops,
                   queueTimers, restartTimers, tabs, seqVars, histVars>>

\* queueTabForAutomation: the onUpdated listener is added to each tab of the
\* batch; a tab whose load completed earlier never reports it again.
Listening(tb, opened) ==
    [t \in 1..Len(tb) |->
        IF (\E k \in 1..Len(opened) : opened[k] = t) /\ tb[t].st = "loading"
        THEN [tb[t] EXCEPT !.st = "listening"] ELSE tb[t]]

\* One pass of processBatch's opening loop: chrome.tabs.create for the link at
\* currentIndex + i.  After the last pass the batch is handed over: listeners
\* added, the queue started, the cursor advanced, the next batch scheduled.
ProcessBatchOpen(ok) ==
    /\ batch.pc = "opening"
    /\ Len(tabs) < MaxTabs
    /\ LET linkIndex == currentIndex + batch.i
           link == LinkAt(links, linkIndex)
           created == ok /\ link # NoLink
           tabs1 == IF created
                    THEN Append(tabs, [index |-> linkIndex, url |-> getLinkUrl(link),
                                       batchStart |-> currentIndex,
                                       st |-> "loading", polls |-> 0])
                    ELSE tabs
           opened1 == IF created THEN Append(batch.opened, Len(tabs1))
                      ELSE batch.opened
       IN  IF batch.i + 1 < batch.size
           THEN /\ batch' = [batch EXCEPT !.i = @ + 1, !.opened = opened1]
                /\ tabs' = tabs1
                /\ UNCHANGED <<currentIndex, batchTimers, trackVars,
                               automationQueue, isProcessingQueue, loops>>
           ELSE /\ batchTimers < MaxTimers
                /\ CanEnter(QState)
                /\ QApply(processAutomationQueue(
                       [QState EXCEPT !.tb = Listening(tabs1, opened1)], links))
                /\ currentIndex' = currentIndex + batch.size
                /\ batchTimers' = batchTimers + 1
                /\ batch' = IdleBatch
    /\ UNCHANGED popupVars
    /\ UNCHANGED <<links, isProcessing, isBatchMode, batchSize, shouldMoveNext,
                   sequentialOptions, currentTab, tabListeners, pauseVars,
                   queueRecoveryAttempts, lastQueueProgress, healthVars,
                   storage, now, queueTimers, restartTimers, seqVars, histVars>>

\* chrome.tabs.onUpdated reports status 'complete' for a tab of a batch.
TabComplete(t) ==
    /\ t \in 1..Len(tabs)
    /\ tabs[t].st \in {"loading", "listening"}
    /\ IF tabs[t].st = "loading"
       THEN /\ tabs' = [tabs EXCEPT ![t].st = "missed"]
            /\ UNCHANGED <<trackVars, automationQueue, isProcessingQueue, loops>>
       ELSE LET s == [QState EXCEPT
                        !.q = Append(@, [tab |-> t, url |-> tabs[t].url,
                                         index |-> tabs[t].index]),
                        !.tb[t].st = "queued"]
            IN  /\ CanEnter(s)
                /\ QApply(processAutomationQueue(s, links))
    /\ UNCHANGED popupVars
    /\ UNCHANGED <<procVars, pauseVars, queueRecoveryAttempts, lastQueueProgress,
                   healthVars, storage, now, queueTimers, restartTimers, batch,
                   batchTimers, seqVars, histVars>>

\* ------------------------------------------- the queue loop, step by step
PrepResults == {"accepted", "rejected", "notSent"}

\* generateAndSavePDFWithIndex returns: the POST /print was accepted, was
\* answered with a failure, or was never sent (an earlier await threw).  An
\* accepted submission is recorded as completed before completion is polled.
LoopPrepDone(l, result) ==
    /\ loops[l].pc = "prep"
    /\ LET item == loops[l].item
       IN  /\ submitLog' = IF result = "notSent" THEN submitLog
                           ELSE [submitLog EXCEPT ![item.url] = Bump(@)]
           /\ IF result = "accepted"
              THEN /\ QApply([QState EXCEPT
                                !.st[item.url] = "completed",
                                !.done = @ \cup {item.url},
                                !.cur = NoLink,
                                !.lp[l] = [loops[l] EXCEPT !.pc = "wait",
                                                           !.completedTime = now]])
                   /\ lastQueueProgress' = now
                   /\ queueRecoveryAttempts' = 0
              ELSE /\ QApply(AfterItem(MarkFailed(QState, item), l))
                   /\ UNCHANGED <<lastQueueProgress, queueRecoveryAttempts>>
    /\ UNCHANGED popupVars
    /\ UNCHANGED <<procVars, pauseVars, healthVars, storage, now, queueTimers,
                   restartTimers, batch, batchTimers, seqVars, runs, pauses, recoveryLog,
                   blockReportLog, healthLog>>

HealthAnswers == {"failed", "ok", "critical"}
CompletionAnswers == {"error", "completed", "running", "gone"}

\* A retry test that allows one retry more.
retryAllowedOnceMore(errs, count) == errs <= maxRetries + 1 /\ count <= maxPolls

\* The catch of a failed poll: `consecutiveErrors <= maxRetries && pollCount
\* <= maxPolls` schedules another poll; otherwise the watcher gives up.
retryAllowed(errs, count) == errs <= maxRetries /\ count <= maxPolls

\* A ceiling test that lets one more poll through.
pollCeilingPassedLate(count) == count > maxPolls + 1

\* `if (pollCount > maxPolls)`, tested at the top of every poll before any
\* request is made.
pollCeilingPassed(count) == count > maxPolls

\* One iteration of waitForAutomationCompletion's poll for the item of loop l,
\* with the engine's answers: to the health check made after more than two
\* consecutive errors, to check_completion, and to force_recovery.  A reject
\* lands in processAutomationQueue's catch, which marks the item failed and
\* goes on with the next item at once.  The tab's polls field counts the
\* check_completion requests made with its tab_id.
LoopPoll(l, health, completion, recOk) ==
    /\ loops[l].pc = "wait"
    /\ LET w == loops[l]
           item == w.item
           count == w.pollCount + 1
           timeout == pollCeilingPassed(count)
           checked == ~timeout /\ w.consecutiveErrors > healthCheckErrors
           healed == checked /\ health = "critical"
           errs1 == IF healed THEN 0 ELSE w.consecutiveErrors
           errs2 == errs1 + 1
           giveUp == ~timeout /\ completion = "error"
                     /\ ~retryAllowed(errs2, count)
           gone == ~timeout /\ completion = "gone" /\ ~(count < earlyPollLimit)
           resolved == ~timeout /\ completion = "completed"
           rejected == timeout \/ giveUp \/ gone
           calls == (IF timeout \/ giveUp THEN 1 ELSE 0) + (IF healed THEN 1 ELSE 0)
           polled == [QState EXCEPT
                        !.tb[item.tab].polls = IF timeout THEN @ ELSE @ + 1]
           closed == [polled EXCEPT !.tb[item.tab].st = "closed"]
       IN  /\ queueTimers + calls * RecoveryTimer(recOk, isProcessingQueue) <= MaxTimers
           /\ queueTimers' = queueTimers + calls * RecoveryTimer(recOk, isProcessingQueue)
           /\ recoveryLog' = [recoveryLog EXCEPT !["polling"] = Min(@ + calls, MaxLog)]
           /\ lastQueueProgress' = IF resolved THEN now ELSE lastQueueProgress
           /\ IF rejected
              THEN QApply(NextIteration(MarkFailed(closed, item), l, links))
              ELSE IF resolved
              THEN QApply(AfterItem(closed, l))
              ELSE QApply([polled EXCEPT
                     !.lp[l].pollCount = count,
                     !.lp[l].consecutiveErrors =
                         IF completion = "error" THEN errs2 ELSE 0])
    /\ UNCHANGED popupVars
    /\ UNCHANGED <<procVars, pauseVars, queueRecoveryAttempts, healthVars,
                   storage, now, restartTimers, batch, batchTimers, seqVars,
                   runs, pauses, submitLog, blockReportLog, healthLog>>

\* The queueDelay between two items has elapsed: the while loop goes on.
LoopDelayDone(l) ==
    /\ loops[l].pc = "delay"
    /\ QApply(NextIteration(QState, l, links))
    /\ UNCHANGED popupVars
    /\ UNCHANGED <<procVars, pauseVars, queueRecoveryAttempts, lastQueueProgress,
                   healthVars, storage, now, queueTimers, restartTimers, batch,
                   batchTimers, seqVars, histVars>>

\* The setTimeout(() => processAutomationQueue(), ..) callbacks set by
\* triggerServiceRecovery and recoverStuckQueue.
QueueTimerFire ==
    /\ queueTimers > 0
    /\ CanEnter(QState)
    /\ queueTimers' = queueTimers - 1
    /\ QApply(processAutomationQueue(QState, links))
    /\ UNCHANGED popupVars
    /\ UNCHANGED <<procVars, pauseVars, queueRecoveryAttempts, lastQueueProgress,
                   healthVars, storage, now, restartTimers, batch, batchTimers,
                   seqVars, histVars>>

\* ------------------------------------------------------ operator commands
\* Message pauseProcessing: pauseProcessing().  Nothing is written to storage.
PauseProcessing ==
    /\ pauses < MaxPauses
    /\ pauses' = pauses + 1
    /\ isProcessing' = FALSE
    /\ isProcessingQueue' = FALSE
    /\ isPaused' = TRUE
    /\ currentlyProcessingLink' = NoLink
    /\ UNCHANGED popupVars
    /\ UNCHANGED <<links, currentIndex, isBatchMode, batchSize, shouldMoveNext,
                   sequentialOptions, currentTab, tabListeners, pauseReason,
                   blockedLinks, unprocessedLinks, automationQueue, queueRecoveryAttempts,
                   lastQueueProgress, healthVars, processedLinks, failedLinks,
                   linkProcessingStatus, automationTracker, storage, now, loops,
                   queueTimers, restartTimers, batchVars, seqVars, runs,
                   submitLog, recoveryLog, blockReportLog, healthLog>>

\* Message stopProcessing: stopProcessing().
StopProcessing ==
    /\ isProcessing' = FALSE
    /\ isBatchMode' = FALSE
    /\ shouldMoveNext' = FALSE
    /\ links' = <<>>
    /\ currentIndex' = 0
    /\ tabListeners' = FALSE
    /\ UNCHANGED popupVars
    /\ UNCHANGED <<batchSize, sequentialOptions, currentTab, pauseVars, queueVars,
                   healthVars, trackVars, storage, now, loops, queueTimers,
                   restartTimers, batchVars, seqVars, histVars>>

\* Message resetProcessing: resetProcessing().
ResetProcessing ==
    /\ isProcessing' = FALSE
    /\ isBatchMode' = FALSE
    /\ shouldMoveNext' = FALSE
    /\ links' = <<>>
    /\ currentIndex' = 0
    /\ tabListeners' = FALSE
    /\ isPaused' = FALSE
    /\ processedLinks' = {}
    /\ failedLinks' = {}
    /\ linkProcessingStatus' = NoStatus
    /\ currentlyProcessingLink' = NoLink
    /\ automationQueue' = <<>>
    /\ isProcessingQueue' = FALSE
    /\ UNCHANGED popupVars
    /\ UNCHANGED <<batchSize, sequentialOptions, currentTab, pauseReason,
                   blockedLinks, unprocessedLinks, queueRecoveryAttempts,
                   lastQueueProgress,
                   healthVars, automationTracker, storage, now, loops,
                   queueTimers, restartTimers, batchVars, seqVars, histVars>>

\* resumeProcessing's `while` over blockedLinks: the first index at or after
\* index that no blocked entry names.
RECURSIVE SkipBlocked(_, _, _)
SkipBlocked(index, n, blocked) ==
    IF index < n /\ (\E bl \in blocked : bl.index = index)
    THEN SkipBlocked(index + 1, n, blocked) ELSE index

NoIndex == -1
ResumeIndexes == {NoIndex} \cup (0..MaxLinks)

\* Message resumeProcessing, with or without currentIndex: the handler sets
\* the cursor first, then resumeProcessing() returns at once unless paused.
ResumeProcessing(fromIndex) ==
    LET index == IF fromIndex # NoIndex THEN fromIndex ELSE currentIndex
        target == SkipBlocked(index, Len(links), blockedLinks)
    IN
    /\ IF ~isPaused
       THEN /\ currentIndex' = index
            /\ UNCHANGED <<isProcessing, pauseVars, trackVars, automationQueue,
                           isProcessingQueue, loops, tabs, storage, opens>>
       ELSE /\ isPaused' = FALSE
            /\ pauseReason' = NULL
            /\ UNCHANGED <<blockedLinks, unprocessedLinks>>
            /\ IF automationQueue # <<>> /\ ~isProcessingQueue
               THEN /\ CanEnter(QState)
                    /\ currentIndex' = index
                    /\ isProcessing' = TRUE
                    /\ QApply(processAutomationQueue(QState, links))
                    /\ storage' = PausedSnapshot(FALSE, NULL, blockedLinks, index)
                    /\ UNCHANGED opens
               ELSE /\ currentIndex' = IF index < Len(links) THEN target ELSE index
                    /\ isProcessing' = (index < Len(links) /\ target < Len(links))
                    /\ IF index < Len(links) /\ target < Len(links)
                       THEN \* openLink is awaited before savePausedState
                            /\ Cardinality(opens) < MaxOpens
                            /\ opens' = opens \cup
                                 {[index |-> target,
                                   url |-> getLinkUrl(LinkAt(links, target)),
                                   then |-> "resume"]}
                            /\ UNCHANGED storage
                       ELSE /\ storage' = PausedSnapshot(FALSE, NULL, blockedLinks,
                                IF index < Len(links) THEN target ELSE index)
                            /\ UNCHANGED opens
                    /\ UNCHANGED <<trackVars, automationQueue, isProcessingQueue,
                                   loops, tabs>>
    /\ UNCHANGED popupVars
    /\ UNCHANGED <<links, isBatchMode, batchSize, shouldMoveNext,
                   sequentialOptions, currentTab, tabListeners,
                   queueRecoveryAttempts, lastQueueProgress, healthVars, now,
                   queueTimers, restartTimers, batch, batchTimers, seqRuns,
                   autoPrintTimers, moveNextTimers, reopenTimers,
                   linkCompletedTimers, histVars>>

\* Message clearBlockedLinks: the list is emptied and the pause state saved.
ClearBlockedLinks ==
    /\ blockedLinks' = {}
    /\ storage' = PausedSnapshot(isPaused, pauseReason, {}, currentIndex)
    /\ UNCHANGED popupVars
    /\ UNCHANGED <<procVars, isPaused, pauseReason, unprocessedLinks,
                   queueVars, healthVars, trackVars, now, loops, queueTimers, restartTimers, batchVars,
                   seqVars, histVars>>

\* Message toggleAutoRecovery.
ToggleAutoRecovery ==
    /\ autoRecoveryEnabled' = ~autoRecoveryEnabled
    /\ UNCHANGED popupVars
    /\ UNCHANGED <<procVars, pauseVars, queueVars, serviceHealthStatus,
                   trackVars, storage, now, loops, queueTimers, restartTimers,
                   batchVars, seqVars, histVars>>

\* The browser restarts the service worker: the constructor runs again and
\* loadPausedState reads the stored record.  Work in flight is gone; the
\* stored currentIndex is not read back.
Restart ==
    /\ links' = <<>>
    /\ currentIndex' = 0
    /\ isProcessing' = FALSE
    /\ isBatchMode' = FALSE
    /\ batchSize' = 0
    /\ shouldMoveNext' = FALSE
    /\ sequentialOptions' = NoOptions
    /\ currentTab' = FALSE
    /\ tabListeners' = TRUE
    /\ isPaused' = (IF storage.saved THEN storage.isPaused ELSE FALSE)
    /\ pauseReason' = (IF storage.saved THEN storage.pauseReason ELSE NULL)
    /\ blockedLinks' = (IF storage.saved THEN storage.blockedLinks ELSE {})
    /\ unprocessedLinks' =
           (IF storage.saved THEN storage.unprocessedLinks ELSE <<>>)
    /\ automationQueue' = <<>>
    /\ isProcessingQueue' = FALSE
    /\ queueRecoveryAttempts' = 0
    /\ autoRecoveryEnabled' = TRUE
    /\ serviceHealthStatus' = NULL
    /\ processedLinks' = {}
    /\ failedLinks' = {}
    /\ linkProcessingStatus' = NoStatus
    /\ currentlyProcessingLink' = NoLink
    /\ automationTracker' = {}
    /\ loops' = [l \in LoopIds |-> Off]
    /\ queueTimers' = 0
    /\ restartTimers' = 0
    /\ batch' = IdleBatch
    /\ batchTimers' = 0
    /\ tabs' = <<>>
    /\ seqRuns' = {}
    /\ autoPrintTimers' = 0
    /\ moveNextTimers' = 0
    /\ reopenTimers' = 0
    /\ linkCompletedTimers' = 0
    /\ opens' = {}
    /\ lastQueueProgress' = now
    /\ UNCHANGED popupVars
    /\ UNCHANGED <<storage, now, histVars>>

\* ------------------------------------------------------ sequential mode
\* sequentialOptions as startProcessing builds them from the message.
AutoOptions == [autoAdvance |-> TRUE, useAutoPrint |-> TRUE]
SeqOptions == {AutoOptions, [autoAdvance |-> FALSE, useAutoPrint |-> FALSE]}

\* `this.sequentialOptions?.useAutoPrint` and `.autoAdvance`.
useAutoPrint(opts) == opts.useAutoPrint
autoAdvance(opts) == opts.autoAdvance

\* A call of openLink that awaits the browser; `then` names the caller, which
\* goes on when the call returns.
Opening(index, ls, caller) ==
    [index |-> index, url |-> getLinkUrl(LinkAt(ls, index)), then |-> caller]

\* startProcessing(links, currentIndex, method, options) up to the await of
\* openLink.
startProcessing(ls, index, opts) ==
    /\ ~isProcessing
    /\ batch.pc = "idle"
    /\ Cardinality(opens) < MaxOpens
    /\ runs' = runs + 1
    /\ links' = ls
    /\ currentIndex' = index
    /\ isProcessing' = TRUE
    /\ isBatchMode' = FALSE
    /\ shouldMoveNext' = FALSE
    /\ sequentialOptions' = opts
    /\ processedLinks' = validatedProcessed(processedLinks, linkProcessingStatus)
    /\ failedLinks' = validatedFailed(processedLinks, failedLinks, linkProcessingStatus)
    /\ opens' = IF index < Len(ls)
                THEN opens \cup {Opening(index, ls, "start")} ELSE opens
    /\ UNCHANGED <<batchSize, currentTab, tabListeners, pauseVars, queueVars,
                   healthVars, linkProcessingStatus, currentlyProcessingLink,
                   automationTracker, storage, now, loops, queueTimers,
                   restartTimers, batchVars, seqRuns, autoPrintTimers,
                   moveNextTimers, reopenTimers, linkCompletedTimers, pauses,
                   submitLog, recoveryLog, blockReportLog, healthLog>>

\* Message startProcessing sent with currentIndex 0.
StartProcessing(ls, opts) ==
    /\ runs < MaxRuns
    /\ startProcessing(ls, 0, opts)
    /\ UNCHANGED popupVars

\* Message startProcessing for another list, sent after an earlier start.
StartNextList(ls, opts) ==
    /\ runs >= 1
    /\ runs < MaxGenerations
    /\ startProcessing(ls, 0, opts)
    /\ UNCHANGED popupVars

\* openLink returns to its caller.  On success the tab is current, the cursor
\* is set to the index the call was made with and shouldMoveNext is cleared;
\* then the caller's next statements run.
OpenLinkDone(o, ok) ==
    /\ o \in opens
    /\ opens' = opens \ {o}
    /\ LET auto == ok /\ ((o.then \in {"start", "resume"} /\ useAutoPrint(sequentialOptions))
                          \/ o.then = "next")
           retry == ~ok /\ o.then = "next"
       IN  /\ autoPrintTimers + (IF auto THEN 1 ELSE 0) <= MaxTimers
           /\ moveNextTimers + (IF retry THEN 1 ELSE 0) <= MaxTimers
           /\ autoPrintTimers' = autoPrintTimers + (IF auto THEN 1 ELSE 0)
           /\ moveNextTimers' = moveNextTimers + (IF retry THEN 1 ELSE 0)
           /\ failedLinks' = IF retry THEN failedLinks \cup {o.url} ELSE failedLinks
    /\ IF ok
       THEN /\ currentTab' = TRUE
            /\ currentIndex' = o.index
            /\ shouldMoveNext' = FALSE
       ELSE UNCHANGED <<currentTab, currentIndex, shouldMoveNext>>
    /\ storage' = IF ok /\ o.then = "resume"
                  THEN PausedSnapshot(isPaused, pauseReason, blockedLinks, o.index)
                  ELSE storage
    /\ UNCHANGED popupVars
    /\ UNCHANGED <<links, isProcessing, isBatchMode, batchSize, sequentialOptions,
                   tabListeners, pauseVars, queueVars, healthVars, processedLinks,
                   linkProcessingStatus, currentlyProcessingLink,
                   automationTracker, now, loops, queueTimers, restartTimers,
                   batchVars, seqRuns, reopenTimers, linkCompletedTimers, histVars>>

\* The setTimeout callback that runs executeSequentialAutoPrint, up to the
\* await of the print method.
AutoPrintTimerFire ==
    /\ autoPrintTimers > 0
    /\ autoPrintTimers' = autoPrintTimers - 1
    /\ IF ~isProcessing \/ isBatchMode \/ currentIndex >= Len(links)
       THEN UNCHANGED <<currentlyProcessingLink, linkProcessingStatus, seqRuns>>
       ELSE LET currentUrl == getLinkUrl(LinkAt(links, currentIndex))
            IN  /\ currentlyProcessingLink' = currentUrl
                /\ linkProcessingStatus' =
                       [linkProcessingStatus EXCEPT ![currentUrl] = "processing"]
                /\ seqRuns' = seqRuns \cup
                       {[url |-> currentUrl, pc |-> "submit", pollCount |-> 0]}
    /\ UNCHANGED popupVars
    /\ UNCHANGED <<procVars, pauseVars, queueVars, healthVars, processedLinks,
                   failedLinks, automationTracker, storage, now, loops,
                   queueTimers, restartTimers, batchVars, moveNextTimers,
                   reopenTimers, linkCompletedTimers, opens, histVars>>

\* The rest of executeSequentialAutoPrint once the print method has returned:
\* the status entry and one of the two sets are written for the URL the call
\* began with, and the move to the next link is scheduled.
SeqSettled(r, success) ==
    /\ moveNextTimers + (IF autoAdvance(sequentialOptions) THEN 1 ELSE 0) <= MaxTimers
    /\ seqRuns' = seqRuns \ {r}
    /\ linkProcessingStatus' = [linkProcessingStatus EXCEPT
           ![r.url] = IF success THEN "completed" ELSE "failed"]
    /\ processedLinks' = IF success THEN processedLinks \cup {r.url} ELSE processedLinks
    /\ failedLinks' = IF success THEN failedLinks ELSE failedLinks \cup {r.url}
    /\ currentlyProcessingLink' = NoLink
    /\ moveNextTimers' =
           moveNextTimers + (IF autoAdvance(sequentialOptions) THEN 1 ELSE 0)

\* executeSequentialPythonAutomation: the health check (a critical engine is
\* asked to recover), then POST /print.  Without a current tab the call
\* throws before the request; every failure is returned as success: false.
SeqSubmit(r, health, recOk, result) ==
    /\ r \in seqRuns
    /\ r.pc = "submit"
    /\ LET calls == IF health = "critical" THEN 1 ELSE 0
           sent == currentTab /\ result # "notSent"
       IN  /\ queueTimers + calls * RecoveryTimer(recOk, isProcessingQueue) <= MaxTimers
           /\ queueTimers' = queueTimers + calls * RecoveryTimer(recOk, isProcessingQueue)
           /\ recoveryLog' = [recoveryLog EXCEPT !["sequential"] = Min(@ + calls, MaxLog)]
           /\ submitLog' = IF sent THEN [submitLog EXCEPT ![r.url] = Bump(@)]
                           ELSE submitLog
           /\ IF sent /\ result = "accepted"
              THEN /\ seqRuns' = (seqRuns \ {r}) \cup {[r EXCEPT !.pc = "poll"]}
                   /\ UNCHANGED <<linkProcessingStatus, processedLinks, failedLinks,
                                  currentlyProcessingLink, moveNextTimers>>
              ELSE SeqSettled(r, FALSE)
    /\ UNCHANGED popupVars
    /\ UNCHANGED <<procVars, pauseVars, automationQueue, isProcessingQueue,
                   queueRecoveryAttempts, lastQueueProgress, healthVars,
                   automationTracker, storage, now, loops, restartTimers,
                   batchVars, autoPrintTimers, reopenTimers, linkCompletedTimers,
                   opens, runs, pauses, blockReportLog, healthLog>>

seqMaxPolls == 60
seqErrorPolls == 5
SeqAnswers == {"completed", "running", "error"}

\* One poll of waitForSequentialAutomationCompletion.  The promise is only
\* ever resolved: a timeout and repeated errors count as completion.
SeqPoll(r, answer) ==
    /\ r \in seqRuns
    /\ r.pc = "poll"
    /\ LET count == r.pollCount + 1
           resolved == \/ count > seqMaxPolls
                       \/ answer = "completed"
                       \/ answer = "error" /\ ~(count < seqErrorPolls)
       IN  IF resolved
           THEN SeqSettled(r, TRUE)
           ELSE /\ seqRuns' = (seqRuns \ {r}) \cup {[r EXCEPT !.pollCount = count]}
                /\ UNCHANGED <<linkProcessingStatus, processedLinks, failedLinks,
                               currentlyProcessingLink, moveNextTimers>>
    /\ UNCHANGED popupVars
    /\ UNCHANGED <<procVars, pauseVars, queueVars, healthVars, automationTracker,
                   storage, now, loops, queueTimers, restartTimers, batchVars,
                   autoPrintTimers, reopenTimers, linkCompletedTimers, opens,
                   histVars>>

\* The setTimeout callback that runs moveToNextSequentialLink: the cursor is
\* advanced; past the end of the list stopProcessing() runs, which empties
\* the list and sets the cursor to 0.
MoveNextTimerFire ==
    /\ moveNextTimers > 0
    /\ moveNextTimers' = moveNextTimers - 1
    /\ IF ~isProcessing \/ isBatchMode
       THEN UNCHANGED <<links, currentIndex, isProcessing, isBatchMode,
                        shouldMoveNext, tabListeners, opens>>
       ELSE IF currentIndex + 1 >= Len(links)
       THEN /\ isProcessing' = FALSE
            /\ isBatchMode' = FALSE
            /\ shouldMoveNext' = FALSE
            /\ links' = <<>>
            /\ currentIndex' = 0
            /\ tabListeners' = FALSE
            /\ UNCHANGED opens
       ELSE /\ Cardinality(opens) < MaxOpens
            /\ currentIndex' = currentIndex + 1
            /\ opens' = opens \cup {Opening(currentIndex + 1, links, "next")}
            /\ UNCHANGED <<links, isProcessing, isBatchMode, shouldMoveNext,
                           tabListeners>>
    /\ UNCHANGED popupVars
    /\ UNCHANGED <<batchSize, sequentialOptions, currentTab, pauseVars, queueVars,
                   healthVars, trackVars, storage, now, loops, queueTimers,
                   restartTimers, batchVars, seqRuns, autoPrintTimers,
                   reopenTimers, linkCompletedTimers, histVars>>

\* Message linkCompleted: handleLinkCompleted() sets the flag and a 3 s timer.
LinkCompleted ==
    /\ linkCompletedTimers < MaxTimers
    /\ shouldMoveNext' = TRUE
    /\ linkCompletedTimers' = linkCompletedTimers + 1
    /\ UNCHANGED popupVars
    /\ UNCHANGED <<links, currentIndex, isProcessing, isBatchMode, batchSize,
                   sequentialOptions, currentTab, tabListeners, pauseVars,
                   queueVars, healthVars, trackVars, storage, now, loops,
                   queueTimers, restartTimers, batchVars, seqRuns,
                   autoPrintTimers, moveNextTimers, reopenTimers, opens, histVars>>

\* The timer of handleLinkCompleted: the cursor is advanced and the next link
\* opened, or stopProcessing() runs past the end of the list.
LinkCompletedTimerFire ==
    /\ linkCompletedTimers > 0
    /\ linkCompletedTimers' = linkCompletedTimers - 1
    /\ IF ~isProcessing \/ Len(links) = 0
       THEN UNCHANGED <<links, currentIndex, isProcessing, isBatchMode,
                        shouldMoveNext, tabListeners, opens>>
       ELSE IF currentIndex + 1 >= Len(links)
       THEN /\ isProcessing' = FALSE
            /\ isBatchMode' = FALSE
            /\ shouldMoveNext' = FALSE
            /\ links' = <<>>
            /\ currentIndex' = 0
            /\ tabListeners' = FALSE
            /\ UNCHANGED opens
       ELSE /\ Cardinality(opens) < MaxOpens
            /\ currentIndex' = currentIndex + 1
            /\ opens' = opens \cup {Opening(currentIndex + 1, links, "linkCompleted")}
            /\ UNCHANGED <<links, isProcessing, isBatchMode, shouldMoveNext,
                           tabListeners>>
    /\ UNCHANGED popupVars
    /\ UNCHANGED <<batchSize, sequentialOptions, currentTab, pauseVars, queueVars,
                   healthVars, trackVars, storage, now, loops, queueTimers,
                   restartTimers, batchVars, seqRuns, autoPrintTimers,
                   moveNextTimers, reopenTimers, histVars>>

\* tabClosedListener: the current tab was removed; while processing, the
\* link at the cursor is reopened a second later.
TabClosed ==
    /\ tabListeners
    /\ currentTab
    /\ currentTab' = FALSE
    /\ LET again == isProcessing /\ currentIndex < Len(links)
       IN  /\ reopenTimers + (IF again THEN 1 ELSE 0) <= MaxTimers
           /\ reopenTimers' = reopenTimers + (IF again THEN 1 ELSE 0)
    /\ UNCHANGED popupVars
    /\ UNCHANGED <<links, currentIndex, isProcessing, isBatchMode, batchSize,
                   shouldMoveNext, sequentialOptions, tabListeners, pauseVars,
                   queueVars, healthVars, trackVars, storage, now, loops,
                   queueTimers, restartTimers, batchVars, seqRuns,
                   autoPrintTimers, moveNextTimers, linkCompletedTimers, opens,
                   histVars>>

\* The timer of tabClosedListener: openLink(links[currentIndex], currentIndex)
\* with the cursor as it is when the timer fires; with no link there the call
\* throws before it changes anything.
ReopenTimerFire ==
    /\ reopenTimers > 0
    /\ reopenTimers' = reopenTimers - 1
    /\ IF LinkAt(links, currentIndex) = NoLink
       THEN UNCHANGED opens
       ELSE /\ Cardinality(opens) < MaxOpens
            /\ opens' = opens \cup {Opening(currentIndex, links, "reopen")}
    /\ UNCHANGED popupVars
    /\ UNCHANGED <<procVars, pauseVars, queueVars, healthVars, trackVars, storage,
                   now, loops, queueTimers, restartTimers, batchVars, seqRuns,
                   autoPrintTimers, moveNextTimers, linkCompletedTimers, histVars>>

\* ------------------------------------------------------ the page agent
BlockKinds == {"paywall", "captcha"}

\* Message accessBlocked, sent by the content script's
\* notifyBackgroundOfBlockage: handleMessage has no case for the action, so
\* its default branch answers 'Unknown action' and no field changes.  The
\* delivery itself is recorded in blockReportLog.
AccessBlocked(url, kind) ==
    /\ Len(blockReportLog) < MaxReports
    /\ blockReportLog' = Append(blockReportLog, [url |-> url, kind |-> kind])
    /\ UNCHANGED popupVars
    /\ UNCHANGED <<procVars, pauseVars, queueVars, healthVars, trackVars, storage,
                   now, loops, queueTimers, restartTimers, batchVars, seqVars,
                   runs, pauses, submitLog, recoveryLog, healthLog>>

\* ------------------------------------------------------ health monitoring
Unreachable == [ok |-> FALSE, status |-> "unreachable", health_score |-> 0,
                automation_duration |-> 0]
\* A non-OK HTTP response whose body reports a critical engine.
ErrorResponse == [ok |-> FALSE, status |-> "critical", health_score |-> 40,
                  automation_duration |-> 60]
HealthResponses ==
    {Unreachable, ErrorResponse} \cup
    [ok : {TRUE}, status : {"healthy", "degraded", "critical"},
     health_score : {40, 80}, automation_duration : {30, 60}]

\* The status checkServiceHealth stores: the body of an OK response,
\* `unreachable` for a failed request or a non-OK response.
healthStatusOf(resp) == IF resp.ok THEN resp.status ELSE "unreachable"

\* A recovery test that does not look at response.ok.
needsRecoveryAnyResponse(resp) ==
    resp.status = "critical" \/ resp.health_score < healthScoreFloor

\* `Check if service needs recovery`, inside the `if (response.ok)` branch.
needsRecovery(resp) ==
    resp.ok /\ (resp.status = "critical" \/ resp.health_score < healthScoreFloor)

\* The last two ticks of the heartbeat: the status observed and whether a
\* force_recovery request was made.
Observed(log, status, recovered) ==
    LET tick == [status |-> status, recovered |-> recovered]
    IN  IF Len(log) < 2 THEN Append(log, tick) ELSE <<log[2], tick>>

\* A tick of the heartbeat interval: checkServiceHealth() with the engine's
\* answer to /health and to the force_recovery request it may make.
CheckServiceHealth(resp, recOk) ==
    LET calls == IF needsRecovery(resp) /\ autoRecoveryEnabled
                    /\ resp.automation_duration > criticalDuration
                 THEN 1 ELSE 0
    IN
    /\ queueTimers + calls * RecoveryTimer(recOk, isProcessingQueue) <= MaxTimers
    /\ serviceHealthStatus' = healthStatusOf(resp)
    /\ healthLog' = Observed(healthLog, healthStatusOf(resp), calls = 1)
    /\ recoveryLog' = [recoveryLog EXCEPT !["health"] = Min(@ + calls, MaxLog)]
    /\ queueTimers' = queueTimers + calls * RecoveryTimer(recOk, isProcessingQueue)
    /\ UNCHANGED popupVars
    /\ UNCHANGED <<procVars, pauseVars, queueVars, autoRecoveryEnabled, trackVars,
                   storage, now, loops, restartTimers, batchVars, seqVars, runs, pauses,
                   submitLog, blockReportLog>>

\* recoverStuckQueue(reason): the attempt is counted, the engine asked to
\* recover, the running mark cleared and the restart timer set.
RecoverStuckQueue(reason, recOk) ==
    /\ queueTimers + RecoveryTimer(recOk, isProcessingQueue) <= MaxTimers
    /\ restartTimers < MaxTimers
    /\ queueRecoveryAttempts' = queueRecoveryAttempts + 1
    /\ recoveryLog' = [recoveryLog EXCEPT ![reason] = Bump(@)]
    /\ queueTimers' = queueTimers + RecoveryTimer(recOk, isProcessingQueue)
    /\ isProcessingQueue' = FALSE
    /\ restartTimers' = restartTimers + 1

\* A tick of the stall interval, 15 s after the last: checkQueueStall().
\* With no loop marked running or nothing waiting in the queue the stall
\* clock is restarted.
CheckQueueStall(recOk) ==
    /\ now < MaxTime * stallCheckInterval
    /\ now' = now + stallCheckInterval
    /\ IF ~isProcessingQueue \/ Len(automationQueue) = 0
       THEN /\ lastQueueProgress' = now'
            /\ UNCHANGED <<isProcessingQueue, queueRecoveryAttempts, queueTimers,
                           restartTimers, recoveryLog>>
       ELSE IF now' - lastQueueProgress > stuckQueueThreshold
               /\ autoRecoveryEnabled
               /\ queueRecoveryAttempts < maxQueueRecoveryAttempts
       THEN /\ RecoverStuckQueue("stall", recOk)
            /\ UNCHANGED lastQueueProgress
       ELSE UNCHANGED <<lastQueueProgress, isProcessingQueue,
                        queueRecoveryAttempts, queueTimers, restartTimers,
                        recoveryLog>>
    /\ UNCHANGED popupVars
    /\ UNCHANGED <<procVars, pauseVars, automationQueue, healthVars, trackVars,
                   storage, loops, batchVars, seqVars, runs, pauses, submitLog,
                   blockReportLog, healthLog>>

\* Message recoverStuckQueue: recoverStuckQueue('manual').
ManualRecoverStuckQueue(recOk) ==
    /\ queueRecoveryAttempts < MaxAttempts
    /\ RecoverStuckQueue("manual", recOk)
    /\ UNCHANGED popupVars
    /\ UNCHANGED <<procVars, pauseVars, automationQueue, lastQueueProgress,
                   healthVars, trackVars, storage, now, loops, batchVars, seqVars,
                   runs, pauses, submitLog, blockReportLog, healthLog>>

\* The 3 s timer of recoverStuckQueue: with items waiting, the stall clock is
\* restarted and processAutomationQueue() called.
RestartTimerFire ==
    /\ restartTimers > 0
    /\ restartTimers' = restartTimers - 1
    /\ IF Len(automationQueue) > 0
       THEN /\ CanEnter(QState)
            /\ lastQueueProgress' = now
            /\ QApply(processAutomationQueue(QState, links))
       ELSE UNCHANGED <<lastQueueProgress, trackVars, automationQueue,
                        isProcessingQueue, loops, tabs>>
    /\ UNCHANGED popupVars
    /\ UNCHANGED <<procVars, pauseVars, queueRecoveryAttempts, healthVars,
                   storage, now, queueTimers, batch, batchTimers, seqVars,
                   histVars>>

\* ------------------------------------------------------ the popup page
\* A line of the links textarea: the URL of a supported news site (URLs), a
\* blank line, or text validateSingleLink rejects.
BlankLine == 0
InvalidLine == MaxLinks + 1
Lines == URLs \cup {BlankLine, InvalidLine}

RECURSIVE SeqsUpTo(_, _)
SeqsUpTo(S, n) ==
    IF n = 0 THEN {<<>>}
    ELSE LET shorter == SeqsUpTo(S, n - 1)
         IN  shorter \cup {Append(q, x) : q \in shorter, x \in S}

\* What the operator pastes: up to MaxInput lines.
Inputs == SeqsUpTo(Lines, MaxInput)

\* validateSingleLink: the URL parses and its site is a supported one.
validateSingleLink(line) == line \in URLs

\* input.split('\n').map(trim).filter(line => line): blank lines are dropped.
NonBlank(line) == line # BlankLine
rawLinks(input) == SelectSeq(input, NonBlank)

\* validateLinks(rawLinks).valid: every line that validates, in input order,
\* one entry per line.
validateLinks(raw) == SelectSeq(raw, validateSingleLink)

\* The operator pastes lines into the empty textarea.
PasteLinks(input) ==
    /\ linksInput = <<>>
    /\ input # <<>>
    /\ linksInput' = input
    /\ UNCHANGED <<popupLinks, popupIndex, loadedSinceStart>>
    /\ UNCHANGED <<procVars, pauseVars, queueVars, healthVars, trackVars, storage,
                   now, loops, queueTimers, restartTimers, batchVars, seqVars,
                   histVars>>

\* Click on Load Links: loadLinks().  With no line left after trimming, or no
\* valid link, it returns and changes nothing; otherwise the valid lines
\* become the popup's links, one link object per line, and the textarea is
\* cleared.
LoadLinks ==
    /\ IF rawLinks(linksInput) = <<>> \/ validateLinks(rawLinks(linksInput)) = <<>>
       THEN UNCHANGED popupVars
       ELSE /\ popupLinks' = validateLinks(rawLinks(linksInput))
            /\ popupIndex' = 0
            /\ loadedSinceStart' = TRUE
            /\ linksInput' = <<>>
    /\ UNCHANGED <<procVars, pauseVars, queueVars, healthVars, trackVars, storage,
                   now, loops, queueTimers, restartTimers, batchVars, seqVars,
                   histVars>>

\* ------------------------------------------------------ status queries
\* Message getStatus: the flags and the cursor as they are now.
getStatus ==
    [isProcessing |-> isProcessing, shouldMoveNext |-> shouldMoveNext,
     currentIndex |-> currentIndex]

\* Message getProcessingStatus: the counts are the sizes of the two sets,
\* and unprocessedCount is the list length minus both.
getProcessingStatus ==
    [isProcessing |-> isProcessing, isPaused |-> isPaused,
     currentlyProcessingLink |-> currentlyProcessingLink,
     totalLinks |-> Len(links),
     processedCount |-> Cardinality(processedLinks),
     failedCount |-> Cardinality(failedLinks),
     unprocessedCount |->
         Len(links) - Cardinality(processedLinks) - Cardinality(failedLinks),
     queueLength |-> Len(automationQueue),
     processedLinks |-> processedLinks, failedLinks |-> failedLinks]

\* getUnprocessedLinks(), the answer to the messages getUnprocessedLinks and
\* copyUnprocessedLinks (the first `case` of each name is the one that
\* runs): the URLs of all links that are in neither processedLinks nor
\* failedLinks, in list order.
NotRecorded(url) == url \notin processedLinks /\ url \notin failedLinks
getUnprocessedLinks ==
    SelectSeq([i \in 1..Len(links) |-> getLinkUrl(links[i])], NotRecorded)

\* exportUnprocessedLinksAsText(), the answer to exportUnprocessedLinks: the
\* text lists every entry of blockedLinks with its block type and reason,
\* then every entry of unprocessedLinks; count is unprocessedLinks.length.
\* updateUnprocessedLinks(), which would fill unprocessedLinks from the
\* cursor, has no caller.
exportUnprocessedLinksAsText ==
    [blocked |-> blockedLinks,
     unprocessed |-> unprocessedLinks,
     count |-> Len(unprocessedLinks)]

\* ------------------------------------ the popup and the background
\* The popup's 1 s interval: syncWithBackground().  A set shouldMoveNext
\* flag makes moveToNextLink() advance the popup's cursor; then the cursor
\* becomes the larger of the popup's and the background's.
SyncWithBackground ==
    /\ LET response == getStatus
           moved == IF response.shouldMoveNext THEN popupIndex + 1 ELSE popupIndex
       IN  /\ moved <= MaxLinks
           /\ popupIndex' = Max(moved, response.currentIndex)
    /\ UNCHANGED <<linksInput, popupLinks, loadedSinceStart>>
    /\ UNCHANGED <<procVars, pauseVars, queueVars, healthVars, trackVars, storage,
                   now, loops, queueTimers, restartTimers, batchVars, seqVars,
                   histVars>>

\* Click on Start: the popup's startProcessing() returns when it has no
\* links; otherwise it sends startSequentialProcessing with its links and
\* its cursor.
PopupStartProcessing(opts) ==
    /\ runs < MaxRuns
    /\ popupLinks # <<>>
    /\ startProcessing(popupLinks, popupIndex, opts)
    /\ loadedSinceStart' = FALSE
    /\ UNCHANGED <<linksInput, popupLinks, popupIndex>>

\* ------------------------------------------------------ specifications
\* Batch mode with its automation queue, and the pause and resume commands.
NextBatch ==
    \/ \E ls \in LinkLists, bs \in BatchSizes : StartBatchProcessing(ls, bs)
    \/ ProcessBatchTimer
    \/ \E ok \in BOOLEAN : ProcessBatchOpen(ok)
    \/ \E t \in 1..MaxTabs : TabComplete(t)
    \/ \E l \in LoopIds, result \in PrepResults : LoopPrepDone(l, result)
    \/ \E l \in LoopIds, completion \in {"completed", "error"} :
           LoopPoll(l, "ok", completion, TRUE)
    \/ \E l \in LoopIds : LoopDelayDone(l)
    \/ QueueTimerFire

SpecBatch == Init /\ [][NextBatch]_vars

\* Batch mode under the pause and resume commands, with an engine that
\* accepts and completes every submission.
NextPause ==
    \/ \E ls \in LinkLists, bs \in BatchSizes : StartBatchProcessing(ls, bs)
    \/ ProcessBatchTimer
    \/ ProcessBatchOpen(TRUE)
    \/ \E t \in 1..MaxTabs : TabComplete(t)
    \/ \E l \in LoopIds : LoopPrepDone(l, "accepted")
    \/ \E l \in LoopIds : LoopPoll(l, "ok", "completed", TRUE)
    \/ \E l \in LoopIds : LoopDelayDone(l)
    \/ PauseProcessing
    \/ ResumeProcessing(NoIndex)

SpecPause == Init /\ [][NextPause]_vars

\* Sequential mode: the auto-print pipeline, tab closures, pause and resume.
NextSeq ==
    \/ \E ls \in {LinkList(1), LinkList(2)} : StartProcessing(ls, AutoOptions)
    \/ \E o \in opens : OpenLinkDone(o, TRUE)
    \/ AutoPrintTimerFire
    \/ \E r \in seqRuns, result \in {"accepted", "rejected"} :
           SeqSubmit(r, "ok", TRUE, result)
    \/ \E r \in seqRuns : SeqPoll(r, "completed")
    \/ MoveNextTimerFire
    \/ TabClosed
    \/ ReopenTimerFire
    \/ PauseProcessing
    \/ \E i \in {NoIndex, 0, 1} : ResumeProcessing(i)

SpecSeq == Init /\ [][NextSeq]_vars

\* A sequential run on which the page agent reports blocked pages.
NextBlock ==
    \/ \E ls \in LinkLists, opts \in SeqOptions : StartProcessing(ls, opts)
    \/ \E o \in opens : OpenLinkDone(o, TRUE)
    \/ AutoPrintTimerFire
    \/ \E r \in seqRuns, result \in PrepResults : SeqSubmit(r, "ok", TRUE, result)
    \/ \E r \in seqRuns : SeqPoll(r, "completed")
    \/ MoveNextTimerFire
    \/ \E u \in URLs, k \in BlockKinds : AccessBlocked(u, k)

SpecBlock == Init /\ [][NextBlock]_vars

\* A sequential run that is paused, resumed and cut by restarts of the worker.
NextRestart ==
    \/ \E ls \in LinkLists, opts \in SeqOptions : StartProcessing(ls, opts)
    \/ \E o \in opens : OpenLinkDone(o, TRUE)
    \/ AutoPrintTimerFire
    \/ \E r \in seqRuns, result \in PrepResults : SeqSubmit(r, "ok", TRUE, result)
    \/ \E r \in seqRuns : SeqPoll(r, "completed")
    \/ MoveNextTimerFire
    \/ PauseProcessing
    \/ ResumeProcessing(NoIndex)
    \/ ClearBlockedLinks
    \/ Restart

SpecRestart == Init /\ [][NextRestart]_vars

\* The heartbeat on its own: the engine's health answers and the operator's
\* auto-recovery switch, over a batch whose queue loop is running.
NextHealth ==
    \/ \E bs \in BatchSizes : StartBatchProcessing(LinkList(2), bs)
    \/ ProcessBatchOpen(TRUE)
    \/ \E t \in 1..MaxTabs : TabComplete(t)
    \/ \E resp \in HealthResponses, recOk \in BOOLEAN : CheckServiceHealth(resp, recOk)
    \/ ToggleAutoRecovery
    \/ QueueTimerFire

SpecHealth == Init /\ [][NextHealth]_vars

\* The stall detector over a batch whose engine is slow to complete.
NextStall ==
    \/ \E ls \in LinkLists, bs \in BatchSizes : StartBatchProcessing(ls, bs)
    \/ ProcessBatchTimer
    \/ ProcessBatchOpen(TRUE)
    \/ \E t \in 1..MaxTabs : TabComplete(t)
    \/ \E l \in LoopIds : LoopPrepDone(l, "accepted")
    \/ \E l \in LoopIds : LoopPoll(l, "ok", "completed", TRUE)
    \/ \E l \in LoopIds : LoopDelayDone(l)
    \/ \E recOk \in BOOLEAN : CheckQueueStall(recOk)
    \/ RestartTimerFire
    \/ QueueTimerFire

SpecStall == Init /\ [][NextStall]_vars

\* The stall detector when the operator too asks for queue recoveries.
NextExhaust ==
    \/ StartBatchProcessing(LinkList(2), MaxBatchSize)
    \/ ProcessBatchTimer
    \/ ProcessBatchOpen(TRUE)
    \/ \E t \in 1..MaxTabs : TabComplete(t)
    \/ \E l \in LoopIds : LoopPrepDone(l, "accepted")
    \/ \E l \in LoopIds : LoopPoll(l, "ok", "completed", TRUE)
    \/ \E l \in LoopIds : LoopDelayDone(l)
    \/ CheckQueueStall(TRUE)
    \/ ManualRecoverStuckQueue(TRUE)
    \/ RestartTimerFire
    \/ QueueTimerFire

SpecExhaust == Init /\ [][NextExhaust]_vars

\* Scenario D: one batch run over MaxLinks distinct links in batches of
\* MaxBatchSize, every tab opening and an engine that accepts and completes
\* every submission.
NextScenarioD ==
    \/ StartBatchProcessing(LinkList(MaxLinks), MaxBatchSize)
    \/ ProcessBatchTimer
    \/ ProcessBatchOpen(TRUE)
    \/ \E t \in 1..MaxTabs : TabComplete(t)
    \/ \E l \in LoopIds : LoopPrepDone(l, "accepted")
    \/ \E l \in LoopIds : LoopPoll(l, "ok", "completed", TRUE)
    \/ \E l \in LoopIds : LoopDelayDone(l)

SpecScenarioD == Init /\ [][NextScenarioD]_vars

\* Scenario A: one sequential auto-print run over MaxLinks distinct links,
\* every page opening and every capture accepted and then completed, after
\* any number of polls that find it still running.
NextScenarioA ==
    \/ StartProcessing(LinkList(MaxLinks), AutoOptions)
    \/ \E o \in opens : OpenLinkDone(o, TRUE)
    \/ AutoPrintTimerFire
    \/ \E r \in seqRuns : SeqSubmit(r, "ok", TRUE, "accepted")
    \/ \E r \in seqRuns, answer \in {"completed", "running"} : SeqPoll(r, answer)
    \/ MoveNextTimerFire

SpecScenarioA == Init /\ [][NextScenarioA]_vars

\* The popup's link list: the operator pastes lines and clicks Load Links.
NextLoad ==
    \/ \E input \in Inputs : PasteLinks(input)
    \/ LoadLinks

SpecLoad == Init /\ [][NextLoad]_vars

\* The completion watcher of the queue loop, for a batch of one link, against
\* every answer of the engine: to check_completion, to the health check and
\* to force_recovery.
NextPoll ==
    \/ StartBatchProcessing(LinkList(1), 1)
    \/ ProcessBatchTimer
    \/ ProcessBatchOpen(TRUE)
    \/ \E t \in 1..MaxTabs : TabComplete(t)
    \/ \E l \in LoopIds : LoopPrepDone(l, "accepted")
    \/ \E l \in LoopIds, health \in HealthAnswers,
          completion \in CompletionAnswers, recOk \in BOOLEAN :
           LoopPoll(l, health, completion, recOk)
    \/ QueueTimerFire

SpecPoll == Init /\ [][NextPoll]_vars

\* The same watcher with the steps the extension and the browser take by
\* themselves made fair: timers fire, tabs load, a submission is answered.
\* Nothing obliges the engine to answer a check_completion request: the
\* requests are made by fetch with no timeout and no abort signal.
PollFairness ==
    /\ WF_vars(ProcessBatchTimer)
    /\ WF_vars(ProcessBatchOpen(TRUE))
    /\ WF_vars(\E t \in 1..MaxTabs : TabComplete(t))
    /\ WF_vars(\E l \in LoopIds : LoopPrepDone(l, "accepted"))
    /\ WF_vars(QueueTimerFire)

SpecPollLive == Init /\ [][NextPoll]_vars /\ PollFairness

\* ------------------------------------------------------ properties
Last(log) == log[Len(log)]

\* C1: in every reachable state no URL is both in processedLinks (the
\* completed set) and in failedLinks (the failed set), whatever the order in
\* which submissions succeed, fail, time out or are rejected during polling.
C1_CompletedAndFailedDisjoint == processedLinks \cap failedLinks = {}

\* C2: within a run (a start command begins a new one) currentIndex never
\* decreases from one state to the next, except as the direct effect of a
\* resumeProcessing command that carries an index; not on completion,
\* failure, pause, the end of the list or a reopened tab.
C2_CursorNeverDecreases ==
    [][currentIndex' < currentIndex
         => \/ runs' # runs
            \/ \E i \in 0..MaxLinks : ResumeProcessing(i)]_vars

\* Three links are loaded, the first is completed, the second is the one in
\* hand and the third has not been touched.
ScenarioB ==
    /\ Len(links) = 3
    /\ isProcessing
    /\ currentIndex = 1
    /\ linkProcessingStatus[getLinkUrl(LinkAt(links, 0))] = "completed"
    /\ linkProcessingStatus[getLinkUrl(LinkAt(links, 2))] = "none"
    /\ submitLog[getLinkUrl(LinkAt(links, 2))] = 0

\* C3: when the page agent reports the item in hand (item 2 of 3) as blocked,
\* the orchestrator is left paused with a non-null pauseReason, item 2 is
\* recorded as blocked and not as failed, item 1 stays completed, item 3 stays
\* pending and undispatched, and the pause state with the blocked item is in
\* storage.
C3_BlockReportPauses ==
    [][(/\ ScenarioB
        /\ Len(blockReportLog') = Len(blockReportLog) + 1
        /\ Last(blockReportLog').url = getLinkUrl(LinkAt(links, 1)))
       => LET url == Last(blockReportLog').url
          IN  /\ isPaused'
              /\ pauseReason' # NULL
              /\ \E bl \in blockedLinks' : bl.url = url
              /\ url \notin failedLinks'
              /\ linkProcessingStatus'[getLinkUrl(LinkAt(links, 0))] = "completed"
              /\ linkProcessingStatus'[getLinkUrl(LinkAt(links, 2))] = "none"
              /\ submitLog'[getLinkUrl(LinkAt(links, 2))] = 0
              /\ storage'.saved /\ storage'.isPaused
              /\ \E bl \in storage'.blockedLinks : bl.url = url]_vars

\* C4: the second delivery of the same block report (same URL, same kind)
\* leaves exactly one blocked entry for the URL and the orchestrator paused
\* as the first delivery left it, and changes no state.
C4_BlockReportIdempotent ==
    [][(/\ Len(blockReportLog) >= 1
        /\ blockReportLog' = Append(blockReportLog, Last(blockReportLog)))
       => /\ Cardinality({bl \in blockedLinks' :
                              bl.url = Last(blockReportLog).url}) = 1
          /\ isPaused /\ isPaused'
          /\ UNCHANGED <<procVars, pauseVars, queueVars, trackVars, storage>>]_vars

\* The item of loop l is awaiting completion and no other item of the run has
\* been queued or dispatched: it is the only item in flight, with nothing
\* behind it in the queue.
OnlyItemInFlight(l) ==
    /\ loops[l].pc = "wait"
    /\ \A t \in 1..Len(tabs) :
           t # loops[l].item.tab => tabs[t].st \in {"loading", "listening", "missed"}

\* C5: while the queue is processing, an item that has been in flight with no
\* completion for longer than stuckQueueThreshold has had a queue recovery
\* attempt made for it, also when it is the only item or the last one of the
\* queue (one more stall-check period is allowed for the detection).
C5_StallTriggersRecovery ==
    \A l \in LoopIds :
        (/\ OnlyItemInFlight(l)
         /\ isProcessingQueue
         /\ autoRecoveryEnabled
         /\ now - loops[l].completedTime > stuckQueueThreshold + stallCheckInterval)
        => recoveryLog["stall"] > 0

\* C6: a stall check that detects a stall when the recovery attempts are used
\* up (a further attempt would exceed maxQueueRecoveryAttempts) leaves the
\* queue paused with its items retained.
C6_ExhaustedRecoveryPauses ==
    [][(/\ now' > now
        /\ isProcessingQueue
        /\ Len(automationQueue) > 0
        /\ now' - lastQueueProgress > stuckQueueThreshold
        /\ queueRecoveryAttempts >= maxQueueRecoveryAttempts)
       => (isPaused' /\ automationQueue' = automationQueue)]_vars

\* C7: with autoRecoveryEnabled, once a heartbeat tick has observed the
\* engine critical and asked for recovery, no further force_recovery request
\* is made while the last observed status is still critical.
C7_OneRecoveryPerEpisode ==
    [][(/\ autoRecoveryEnabled
        /\ healthLog # <<>>
        /\ Last(healthLog).status = "critical"
        /\ Last(healthLog).recovered)
       => recoveryLog'["health"] = recoveryLog["health"]]_vars

\* C8: from a pause until the resume, the queue processor takes no further
\* item from the queue to submit it to the engine: an item it prepares for
\* submission while paused is one it already had in hand.
C8_NoDispatchWhilePaused ==
    [][(isPaused /\ isPaused')
       => \A l \in LoopIds :
              loops'[l].pc = "prep"
              => (loops[l].pc = "prep" /\ loops'[l].item = loops[l].item)]_vars

\* C9: a pause command leaves the pause state in storage, and a restart made
\* while paused restores isPaused = true and the cursor of the pause.
C9_PauseSurvivesRestart ==
    [][/\ pauses' > pauses
          => (storage'.saved /\ storage'.isPaused
              /\ storage'.currentIndex = currentIndex')
       /\ (isPaused /\ Restart)
          => (isPaused' /\ currentIndex' = currentIndex)]_vars

\* The item of tab t has reached completed or failed.
Settled(t) ==
    linkProcessingStatus[tabs[t].url] \in {"completed", "failed"}

\* C10: in batch mode no item of a later batch is opened while an item of an
\* earlier batch is still unsettled.
C10_BatchSettledBeforeNext ==
    \A t1, t2 \in 1..Len(tabs) :
        tabs[t1].batchStart < tabs[t2].batchStart => Settled(t1)

\* The batch run has run to its end: processBatch found no link left and
\* called stopProcessing, no batch is opening or scheduled, the queue is
\* empty, no loop is running and no tab is still waiting for its load.
BatchRunEnded ==
    /\ runs > 0
    /\ ~isProcessing
    /\ batch.pc = "idle"
    /\ batchTimers = 0
    /\ automationQueue = <<>>
    /\ \A l \in LoopIds : loops[l].pc = "off"
    /\ \A t \in 1..Len(tabs) : tabs[t].st \notin {"loading", "listening", "queued"}


\* Sequential mode with auto-print while the stall monitor ticks and the
\* operator sends recoverStuckQueue.
NextSeqRecover ==
    \/ StartProcessing(LinkList(MaxLinks), AutoOptions)
    \/ \E o \in opens : OpenLinkDone(o, TRUE)
    \/ AutoPrintTimerFire
    \/ \E r \in seqRuns : SeqSubmit(r, "ok", TRUE, "accepted")
    \/ \E r \in seqRuns, answer \in {"completed", "running"} : SeqPoll(r, answer)
    \/ MoveNextTimerFire
    \/ CheckQueueStall(TRUE)
    \/ ManualRecoverStuckQueue(TRUE)
    \/ RestartTimerFire

SpecSeqRecover == Init /\ [][NextSeqRecover]_vars


\* Batch mode with an engine that accepts and completes every submission,
\* under the stop command.
NextStop ==
    \/ StartBatchProcessing(LinkList(MaxLinks), MaxBatchSize)
    \/ ProcessBatchTimer
    \/ ProcessBatchOpen(TRUE)
    \/ \E t \in 1..MaxTabs : TabComplete(t)
    \/ \E l \in LoopIds : LoopPrepDone(l, "accepted")
    \/ \E l \in LoopIds : LoopPoll(l, "ok", "completed", TRUE)
    \/ \E l \in LoopIds : LoopDelayDone(l)
    \/ StopProcessing

SpecStop == Init /\ [][NextStop]_vars


\* Batch mode with an engine that accepts and completes every submission,
\* while the operator sends recoverStuckQueue and resetProcessing.
NextReset ==
    \/ StartBatchProcessing(LinkList(MaxLinks), MaxBatchSize)
    \/ ProcessBatchTimer
    \/ ProcessBatchOpen(TRUE)
    \/ \E t \in 1..MaxTabs : TabComplete(t)
    \/ \E l \in LoopIds : LoopPrepDone(l, "accepted")
    \/ \E l \in LoopIds : LoopPoll(l, "ok", "completed", TRUE)
    \/ \E l \in LoopIds : LoopDelayDone(l)
    \/ ManualRecoverStuckQueue(TRUE)
    \/ RestartTimerFire
    \/ QueueTimerFire
    \/ ResetProcessing

SpecReset == Init /\ [][NextReset]_vars


\* Sequential mode with auto-print, started either from an earlier popup
\* session or from the popup's own list, while the popup loads lists and
\* syncs with the background.
NextPopup ==
    \/ StartProcessing(LinkList(MaxLinks), AutoOptions)
    \/ \E o \in opens : OpenLinkDone(o, TRUE)
    \/ AutoPrintTimerFire
    \/ \E r \in seqRuns : SeqSubmit(r, "ok", TRUE, "accepted")
    \/ \E r \in seqRuns : SeqPoll(r, "completed")
    \/ MoveNextTimerFire
    \/ \E input \in {LinkList(1), LinkList(2)} : PasteLinks(input)
    \/ LoadLinks
    \/ SyncWithBackground
    \/ PopupStartProcessing(AutoOptions)

SpecPopup == Init /\ [][NextPopup]_vars


\* Two lists processed one after the other in sequential mode with
\* auto-print; the engine accepts every submission and answers completed or
\* failed.
NextGenerations ==
    \/ \E ls \in {LinkList(1), LinkList(2)} : StartProcessing(ls, AutoOptions)
    \/ \E ls \in {<<MaxLinks>>, <<2, MaxLinks>>} : StartNextList(ls, AutoOptions)
    \/ \E o \in opens : OpenLinkDone(o, TRUE)
    \/ AutoPrintTimerFire
    \/ \E r \in seqRuns, result \in {"accepted", "rejected"} :
           SeqSubmit(r, "ok", TRUE, result)
    \/ \E r \in seqRuns, answer \in {"completed", "running"} : SeqPoll(r, answer)
    \/ MoveNextTimerFire

SpecGenerations == Init /\ [][NextGenerations]_vars

\* The options of a manual run: the operator prints each page.
ManualOptions == [autoAdvance |-> FALSE, useAutoPrint |-> FALSE]

\* Manual mode: the operator clicks "Print & Next" on the page on display,
\* the message linkCompleted may be delivered again for the same page, and
\* the popup syncs with the background.
NextManual ==
    \/ \E ls \in {LinkList(2), LinkList(MaxLinks)} : StartProcessing(ls, ManualOptions)
    \/ \E o \in opens, ok \in BOOLEAN : OpenLinkDone(o, ok)
    \/ (isProcessing /\ currentTab /\ opens = {} /\ LinkCompleted)
    \/ LinkCompletedTimerFire
    \/ SyncWithBackground

SpecManual == Init /\ [][NextManual]_vars

\* Sequential mode with auto-print while the operator switches automatic
\* recovery on and off and the engine reports any health.
NextAutoOff ==
    \/ ToggleAutoRecovery
    \/ StartProcessing(LinkList(2), AutoOptions)
    \/ \E o \in opens : OpenLinkDone(o, TRUE)
    \/ AutoPrintTimerFire
    \/ \E r \in seqRuns, health \in HealthAnswers, recOk \in BOOLEAN :
           SeqSubmit(r, health, recOk, "accepted")
    \/ \E r \in seqRuns : SeqPoll(r, "completed")
    \/ MoveNextTimerFire
    \/ \E resp \in HealthResponses, recOk \in BOOLEAN : CheckServiceHealth(resp, recOk)

SpecAutoOff == Init /\ [][NextAutoOff]_vars

\* Two batch runs one after the other, over the same or another list, with
\* an engine that accepts and completes every submission, and the
\* operator's resetProcessing.
NextBatchGenerations ==
    \/ \E ls \in {LinkList(1), LinkList(2)} : StartBatchProcessing(ls, MaxBatchSize)
    \/ \E ls \in {LinkList(1), <<2>>, <<2, MaxLinks>>} : StartNextBatch(ls, MaxBatchSize)
    \/ ProcessBatchTimer
    \/ ProcessBatchOpen(TRUE)
    \/ \E t \in 1..MaxTabs : TabComplete(t)
    \/ \E l \in LoopIds : LoopPrepDone(l, "accepted")
    \/ \E l \in LoopIds : LoopPoll(l, "ok", "completed", TRUE)
    \/ \E l \in LoopIds : LoopDelayDone(l)
    \/ ResetProcessing

SpecBatchGenerations == Init /\ [][NextBatchGenerations]_vars

\* C11: when a batch run over the MaxLinks loaded links has run to its end,
\* every loaded link has been submitted to the engine exactly once: none was
\* omitted and none was submitted twice.
C11_EveryItemSubmittedOnce ==
    BatchRunEnded => \A u \in 1..MaxLinks : submitLog[u] = 1

\* The sequential run has ended: moveToNextSequentialLink found no link
\* left and called stopProcessing, and no call or timer of the run is pending.
SeqRunEnded ==
    /\ runs > 0
    /\ ~isProcessing
    /\ opens = {}
    /\ seqRuns = {}
    /\ autoPrintTimers = 0
    /\ moveNextTimers = 0

\* C12: after a sequential run over 3 links in which every capture
\* succeeded has ended, a status query reports processedCount = 3,
\* failedCount = 0 and the cursor at 3.
C12_ScenarioAStatus ==
    SeqRunEnded
    => /\ getProcessingStatus.processedCount = MaxLinks
       /\ getProcessingStatus.failedCount = 0
       /\ getStatus.currentIndex = MaxLinks

\* C13: when a URL that is in the failed set is recorded as completed (a
\* retry of the item succeeds), the status query that follows reports it as
\* completed only: it is in the processed set and no longer in the failed set
\* nor counted in failedCount.
C13_CompletedPurgesFailed ==
    [][\A u \in URLs :
          (/\ u \in failedLinks
           /\ linkProcessingStatus[u] # "completed"
           /\ linkProcessingStatus'[u] = "completed")
          => /\ u \in getProcessingStatus'.processedLinks
             /\ u \notin getProcessingStatus'.failedLinks
             /\ getProcessingStatus'.failedCount < getProcessingStatus.failedCount]_vars

\* The distinct members of a sequence, in the order of their first occurrence.
RECURSIVE FirstOccurrences(_)
FirstOccurrences(q) ==
    IF q = <<>> THEN <<>>
    ELSE LET front == FirstOccurrences(SubSeq(q, 1, Len(q) - 1))
             x == q[Len(q)]
         IN  IF \E k \in 1..Len(front) : front[k] = x THEN front
             ELSE Append(front, x)

\* C14: a load that takes the pasted lines leaves, as the popup's link list,
\* exactly one entry per distinct valid URL of the input, in the order of
\* first occurrence, also when the input repeats a URL.
C14_LoadCollapsesDuplicates ==
    [][(linksInput # <<>> /\ linksInput' = <<>>)
       => popupLinks' = FirstOccurrences(SelectSeq(linksInput, validateSingleLink))]_vars

\* C16: the completion watcher of one submission makes at most maxPolls
\* (90) check_completion requests in all, successful and failed together,
\* also when a health check or a recovery has reset its consecutive-error
\* counter on the way.
C16_PollCeiling ==
    \A t \in 1..Len(tabs) : tabs[t].polls <= maxPolls

\* A watcher has made its 90th request after a recovery reset its
\* consecutive-error counter.
C16_Witness ==
    \E t \in 1..Len(tabs) :
        tabs[t].polls = maxPolls /\ recoveryLog["polling"] > 0

\* Loop l has dispatched the item of tab t and not yet moved on from it.
InFlight(l, t) ==
    /\ loops[l].pc \in {"prep", "wait"}
    /\ loops[l].item.tab = t

\* C15: whatever the engine does (it never reports completion, answers every
\* poll with an error, or does not answer at all), every item the queue loop
\* has dispatched eventually has status completed or failed and the loop has
\* moved on from it to the next item or to its end.
C15_WatcherTerminates ==
    \A l \in LoopIds, t \in 1..MaxTabs :
        InFlight(l, t)
        ~> (/\ ~InFlight(l, t)
            /\ t <= Len(tabs)
            /\ linkProcessingStatus[tabs[t].url] \in {"completed", "failed"})

\* Loop l no longer polls for the item it was waiting on, the item's URL is
\* marked failed and a force_recovery request was made in the step. The
\* status map is keyed by URL: when the next queue item has the same URL the
\* loop marks it processing again in the same turn.
GaveUp(l) ==
    /\ ~(loops'[l].pc = "wait" /\ loops'[l].item = loops[l].item)
    /\ tabs'[loops[l].item.tab].st = "closed"
    /\ \/ linkProcessingStatus'[loops[l].item.url] = "failed"
       \/ /\ loops'[l].pc = "prep"
          /\ loops'[l].item.url = loops[l].item.url
          /\ linkProcessingStatus'[loops[l].item.url] = "processing"
    /\ loops[l].item.url \in failedLinks'
    /\ \/ recoveryLog'["polling"] > recoveryLog["polling"]
       \/ recoveryLog["polling"] = MaxLog

\* A poll of loop l's watcher that fails (check_completion throws or answers
\* a non-OK response) when errs failed polls in a row have been counted
\* before it, with no critical health answer to reset the count.
FailedPollAfter(l, errs) ==
    /\ loops[l].pc = "wait"
    /\ loops[l].consecutiveErrors = errs
    /\ \E health \in {"ok", "failed"}, recOk \in BOOLEAN :
           LoopPoll(l, health, "error", recOk)

C18_OpenFailureMarksFailed ==
    [][\A u \in URLs :
          (/\ ProcessBatchOpen(FALSE)
           /\ LinkAt(links, currentIndex + batch.i) # NoLink
           /\ u = getLinkUrl(LinkAt(links, currentIndex + batch.i)))
          => (u \in failedLinks' /\ linkProcessingStatus'[u] = "failed")]_vars

\* C19 (sequential mode): the step in which an item's automation is seen
\* completed resets queueRecoveryAttempts to zero and sets the last-progress
\* timestamp to the current time.
C19_SequentialSuccessResets ==
    [][\A r \in seqRuns :
          (r.pc = "poll" /\ SeqPoll(r, "completed"))
          => (queueRecoveryAttempts' = 0 /\ lastQueueProgress' = now')]_vars

\* C20 (batch mode): when a resume command ends a pause and the queue loop
\* takes up an item in that step, the item is the first non-blocked one at
\* or after the cursor the resume has chosen.
C20_ResumeDispatchesFromCursor ==
    [][(isPaused /\ ~isPaused' /\ isBatchMode)
       => \A l \in LoopIds :
              (loops[l].pc = "off" /\ loops'[l].pc = "prep")
              => loops'[l].item.index =
                     SkipBlocked(currentIndex', Len(links), blockedLinks')]_vars

\* The indexes from the cursor to the end of the list, in order.
IndexesFromCursor ==
    [k \in 1..(Len(links) - currentIndex) |-> currentIndex + k - 1]

\* An index whose item is neither completed nor failed nor blocked.
StillPending(i) ==
    /\ linkProcessingStatus[getLinkUrl(LinkAt(links, i))] \notin {"completed", "failed"}
    /\ \A bl \in blockedLinks : bl.index # i

PendingFromCursor == SelectSeq(IndexesFromCursor, StillPending)

\* C21: the unprocessed-URLs query returns exactly the URLs of the items at
\* index >= cursor whose status is neither completed nor failed and which
\* are not blocked, in their original order.
C21_UnprocessedQuery ==
    getUnprocessedLinks =
        [k \in 1..Len(PendingFromCursor) |->
            getLinkUrl(LinkAt(links, PendingFromCursor[k]))]

\* The indexes of the items listed by the export, blocked or not.
ExportedIndexes ==
    LET report == exportUnprocessedLinksAsText
    IN  {report.unprocessed[k].index : k \in DOMAIN report.unprocessed}
            \cup {bl.index : bl \in report.blocked}

\* C22: at any point of a run the export lists exactly the items at or past
\* the cursor that are not completed, the unblocked ones in index order.
C22_ExportListsPending ==
    LET report == exportUnprocessedLinksAsText
    IN  /\ ExportedIndexes =
               {i \in currentIndex..(Len(links) - 1) :
                   linkProcessingStatus[getLinkUrl(LinkAt(links, i))] # "completed"}
        /\ \A j, k \in DOMAIN report.unprocessed :
               j < k => report.unprocessed[j].index < report.unprocessed[k].index

\* C23: a stop leaves the automation queue empty, and once the orchestrator
\* is stopped (not processing, no list) no item is submitted to the engine
\* and no item's status changes.
C23_StopClearsInFlight ==
    [][/\ StopProcessing => automationQueue' = <<>>
       /\ (~isProcessing /\ links = <<>>)
          => (submitLog' = submitLog /\ linkProcessingStatus' = linkProcessingStatus)]_vars

\* C24: after a reset the orchestrator has no items, cursor 0, empty
\* completed and failed sets and status map, an empty automation queue, no
\* pause, no pause reason, no blocked items and queueRecoveryAttempts = 0.
C24_ResetRestoresInitialState ==
    [][ResetProcessing
       => /\ links' = <<>>
          /\ currentIndex' = 0
          /\ processedLinks' = {}
          /\ failedLinks' = {}
          /\ linkProcessingStatus' = NoStatus
          /\ automationQueue' = <<>>
          /\ ~isPaused'
          /\ pauseReason' = NULL
          /\ blockedLinks' = {}
          /\ queueRecoveryAttempts' = 0]_vars

\* C25: from the loading of a list to the next start the popup's cursor is
\* 0, and a start opens the item at index 0 first.
C25_LoadedCursorStaysZero ==
    /\ loadedSinceStart => popupIndex = 0
    /\ \A o \in opens : o.then = "start" => o.index = 0

\* The URLs of the list in use.
LoadedUrls == {getLinkUrl(links[i]) : i \in 1..Len(links)}

\* C26: while the second list is being processed, the completed and failed
\* records, the status map and the counts of the status query hold items of
\* that list only.
C26_NewListReplacesRecords ==
    (runs = MaxGenerations /\ isProcessing)
    => /\ getProcessingStatus.processedLinks \subseteq LoadedUrls
       /\ getProcessingStatus.failedLinks \subseteq LoadedUrls
       /\ getProcessingStatus.processedCount + getProcessingStatus.failedCount
              <= Len(links)
       /\ \A u \in URLs \ LoadedUrls : linkProcessingStatus[u] = "none"

\* C27: a heartbeat tick whose /health request fails or is answered with a
\* non-OK response records the status unreachable and makes no
\* force_recovery request.
C27_UnreachableTickNoRecovery ==
    [][\A resp \in HealthResponses, recOk \in BOOLEAN :
          (~resp.ok /\ CheckServiceHealth(resp, recOk))
          => /\ serviceHealthStatus' = "unreachable"
             /\ recoveryLog' = recoveryLog
             /\ queueTimers' = queueTimers
             /\ ~Last(healthLog').recovered]_vars

\* A tick has found the engine unreachable while a batch is being
\* processed with auto-recovery on, and has asked for no recovery.
C27_Witness ==
    /\ isProcessing
    /\ autoRecoveryEnabled
    /\ serviceHealthStatus = "unreachable"
    /\ healthLog # <<>>
    /\ Last(healthLog).status = "unreachable"
    /\ ~Last(healthLog).recovered
    /\ recoveryLog["health"] = 0

\* C28: a URL's status becomes completed only in a step in which a
\* completion poll for that URL's submission is answered completed.
C28_CompletedOnlyAfterConfirmation ==
    [][\A u \in URLs :
          (linkProcessingStatus[u] # "completed" /\ linkProcessingStatus'[u] = "completed")
          => \/ \E l \in LoopIds, health \in HealthAnswers, recOk \in BOOLEAN :
                    /\ loops[l].pc = "wait"
                    /\ loops[l].item.url = u
                    /\ LoopPoll(l, health, "completed", recOk)
             \/ \E r \in seqRuns :
                    r.url = u /\ r.pc = "poll" /\ SeqPoll(r, "completed")]_vars

\* C29: in sequential mode at most one submission has been accepted by the
\* engine and is not yet settled.
C29_OneInFlightSequential ==
    ~isBatchMode => Cardinality({r \in seqRuns : r.pc = "poll"}) <= 1

\* C30 (no double processing): across pause and resume commands an item
\* whose status is completed is not submitted to the engine again.
C30_CompletedNotDispatchedAgain ==
    [][\A u \in URLs :
          linkProcessingStatus[u] = "completed" => submitLog'[u] = submitLog[u]]_vars

\* C31: a batch run finishes (processing stopped, list released) only from
\* a state in which every loaded item has status completed or failed, or is
\* blocked, and the automation queue is empty.
C31_BatchFinishesWhenAllSettled ==
    [][(isBatchMode /\ isProcessing /\ links # <<>> /\ ~isProcessing' /\ links' = <<>>)
       => /\ automationQueue = <<>>
          /\ \A i \in 0..(Len(links) - 1) :
                 \/ linkProcessingStatus[getLinkUrl(LinkAt(links, i))]
                        \in {"completed", "failed"}
                 \/ \E bl \in blockedLinks : bl.index = i]_vars

\* The tabs opened by the batch run that have not been closed: their items
\* are open and not yet settled.
OpenTabs == {t \in 1..Len(tabs) : tabs[t].st # "closed"}

\* C32: in batch mode the number of items that are open and not yet
\* settled never exceeds batchSize.
C32_OpenItemsWithinBatchSize ==
    isBatchMode => Cardinality(OpenTabs) <= batchSize

\* C33: the status query's counts agree with the store: unprocessedCount is
\* never negative, the three counts add up to totalLinks, and
\* unprocessedCount is the number of URLs the unprocessed-links query returns.
C33_StatusCountsAgree ==
    LET s == getProcessingStatus
    IN  /\ s.unprocessedCount >= 0
        /\ s.processedCount + s.failedCount + s.unprocessedCount = s.totalLinks
        /\ s.unprocessedCount = Len(getUnprocessedLinks)

\* A step in which the health monitor, the stall detector or a completion
\* watcher sends a force_recovery request of its own.
AutoRecoveryIssued ==
    \E reason \in {"health", "stall", "polling"} :
        recoveryLog'[reason] > recoveryLog[reason]

\* A step that uses up one of the orchestrator's bounded counters: a queue
\* recovery attempt, or a poll of a completion watcher (or the watcher's end).
CounterAdvanced ==
    \/ queueRecoveryAttempts' > queueRecoveryAttempts
    \/ \E l \in LoopIds :
           /\ loops[l].pc = "wait"
           /\ \/ loops'[l].pc # "wait"
              \/ loops'[l].pollCount > loops[l].pollCount

\* C34: every automatic recovery path is bounded by a counter: a step that
\* issues force_recovery automatically advances a bounded counter, so that
\* the requests issued while no item completes cannot grow with time.
C34_AutoRecoveryBoundedByCounter ==
    [][AutoRecoveryIssued => CounterAdvanced]_vars

\* C35: in manual mode one completed page advances the cursor once: the
\* advance timer moves the cursor only for a completion that has not been
\* acted upon yet, that is while shouldMoveNext is set and no link opened by
\* an earlier advance is still awaited.
C35_OneAdvancePerCompletedPage ==
    [][(LinkCompletedTimerFire /\ currentIndex' # currentIndex)
       => (shouldMoveNext /\ ~\E o \in opens : o.then = "linkCompleted")]_vars

\* The executions of processAutomationQueue that have entered the loop and
\* not left it.
RunningLoops == {l \in LoopIds : loops[l].pc # "off"}

\* C36: at most one execution of the automation-queue processing loop is
\* active at any time.
C36_OneQueueLoop ==
    Cardinality(RunningLoops) <= 1

\* C37: the per-URL status map and the two result sets agree: a URL is in
\* processedLinks exactly if its status is completed, and in failedLinks
\* exactly if its status is failed.
C37_StatusAgreesWithSets ==
    \A url \in DOMAIN linkProcessingStatus :
        /\ url \in processedLinks <=> linkProcessingStatus[url] = "completed"
        /\ url \in failedLinks <=> linkProcessingStatus[url] = "failed"

\* C38: a resume command received while the orchestrator is not paused
\* changes nothing: cursor, processing flags, queue and persisted state stay
\* as they are, with or without a fromIndex in the command.
C38_ResumeNotPausedIsNoOp ==
    [][(~isPaused /\ \E fromIndex \in ResumeIndexes : ResumeProcessing(fromIndex))
       => UNCHANGED <<currentIndex, isProcessing, isProcessingQueue,
                      automationQueue, storage>>]_vars

\* C39: while autoRecoveryEnabled is false the orchestrator sends no
\* force_recovery request of its own; only the operator's commands do.
C39_NoAutoRecoveryWhenDisabled ==
    [][~autoRecoveryEnabled
       => \A reason \in RecoveryReasons \ {"manual"} :
              recoveryLog'[reason] = recoveryLog[reason]]_vars

\* A step in which the queue loop takes the head of the queue and the
\* duplicate guard rejects it: its key is in the tracker already.
GuardRejects ==
    /\ automationQueue # <<>>
    /\ automationQueue' = Tail(automationQueue)
    /\ linkKey(Head(automationQueue).index, links) \in automationTracker
    /\ linkProcessingStatus'[Head(automationQueue).url] = "failed"

\* C40: the duplicate-submission guard rejects an item only if the same URL
\* at the same index was tracked before in the current run; an item whose
\* URL the queue loop has not taken since the start, or since reset(), is
\* accepted.
C40_GuardRejectsOnlyTrackedItem ==
    [][GuardRejects
       => linkProcessingStatus[Head(automationQueue).url] # "none"]_vars

====
